---------------------------- MODULE Spec2Model ----------------------------
(***************************************************************************)
(* simread (src/main.c): reads an IAR Simple Code file and prints it.      *)
(*                                                                         *)
(* main opens the file and runs four stages in order, each returning 0     *)
(* (go on) or 1 (goto close): DisplayFileSize, DisplayHeader,              *)
(* DisplayRecords (a loop of DisplayRecord calls) and                      *)
(* DisplayCalculatedChecksum.                                              *)
(*                                                                         *)
(* Numbers.  TLC's integers are 32-bit signed, the program's are 32-bit    *)
(* unsigned (unsigned int), 32-bit signed (int), 64-bit (long, size_t,     *)
(* pointers: an LP64 build).  A number that may pass 2^31-1 is kept as a   *)
(* pair <<hi, lo>> standing for hi * 2^16 + lo, with lo in 0..2^16-1; an   *)
(* unsigned int is such a pair with hi in 0..2^16-1.  The operators on     *)
(* pairs bind each operand once (x \in {a}) and work on the bound value.   *)
(***************************************************************************)
EXTENDS Integers, Sequences, FiniteSets, TLC

\* ------------------------------------------------------------ arithmetic

W == 256 * 256

Big(n) == <<n \div W, n % W>>

Plus(a, b) ==
    CHOOSE r \in { <<x[1] + y[1] + ((x[2] + y[2]) \div W), (x[2] + y[2]) % W>> :
                    x \in {a}, y \in {b} } : TRUE

\* a - b for a >= b
Minus(a, b) ==
    CHOOSE r \in { IF x[2] < y[2] THEN <<x[1] - y[1] - 1, x[2] + W - y[2]>>
                                  ELSE <<x[1] - y[1], x[2] - y[2]>> :
                    x \in {a}, y \in {b} } : TRUE

Lt(a, b) == \E x \in {a}, y \in {b} : x[1] < y[1] \/ (x[1] = y[1] /\ x[2] < y[2])

Le(a, b) == \E x \in {a}, y \in {b} : x = y \/ Lt(x, y)

\* a * k for a byte k
Times(a, k) ==
    CHOOSE r \in { <<x[1] * y + ((x[2] * y) \div W), (x[2] * y) % W>> :
                    x \in {a}, y \in {k} } : TRUE

\* the value of a pair known to be below 2^31
Small(a) == CHOOSE r \in { x[1] * W + x[2] : x \in {a} } : TRUE

\* (unsigned int)x: the low 32 bits
ToUnsigned(a) == CHOOSE r \in { <<x[1] % W, x[2]>> : x \in {a} } : TRUE

\* (int)x: the low 32 bits read as two's complement (src/main.c:33)
ToInt(a) ==
    CHOOSE r \in { IF x[1] % W >= W \div 2 THEN ((x[1] % W) - W) * W + x[2]
                                            ELSE (x[1] % W) * W + x[2] :
                    x \in {a} } : TRUE

\* unsigned int addition: a + b modulo 2^32
Add32(a, b) == ToUnsigned(Plus(a, b))

\* unsigned int subtraction: a - b modulo 2^32
Sub32(a, b) ==
    CHOOSE r \in { IF Le(y, x) THEN Minus(x, y) ELSE Minus(Plus(x, <<W, 0>>), y) :
                    x \in {a}, y \in {b} } : TRUE

\* ~a + 1 on an unsigned int (src/main.c:198)
Negate32(a) ==
    CHOOSE r \in { Add32(<<W - 1 - x[1], W - 1 - x[2]>>, Big(1)) : x \in {a} } : TRUE

\* the same with bit 31 dropped: the value if the shift kept a positive int
ShiftOr31(b0, b1, b2, b3) == <<(b0 % 128) * 256 + b1, b2 * 256 + b3>>

\* b0<<24 | b1<<16 | b2<<8 | b3<<0 stored in an unsigned int.  The bytes are
\* promoted to int; the OR of the shifted bytes has b0 in bits 31..24 (for
\* b0 >= 0x80 the int is negative) and the store keeps its 32 bits.
ShiftOr32(b0, b1, b2, b3) == <<b0 * 256 + b1, b2 * 256 + b3>>

\* b0<<8 | b1<<0
ShiftOr16(b0, b1) == b0 * 256 + b1

\* -------------------------------------------------------------- constants

HEADER_SIZE_BYTES == 14

DATA_RECORD_TAG == 1

ENTRY_RECORD_TAG == 2

END_RECORD_TAG == 3

MAX_FILE_SIZE_BYTES == 1000000

\* sizeof(bf) in DisplayRecords
BufSize == MAX_FILE_SIZE_BYTES - HEADER_SIZE_BYTES

\* ------------------------------------------------------------------ files
\* A file is pre, then gap bytes all equal to fill, then post: the content of
\* a file of any size in a few bytes.

File(pre, gap, fill, post) == [pre |-> pre, gap |-> gap, fill |-> fill, post |-> post]

Plain(bytes) == File(bytes, Big(0), 0, <<>>)

\* ftell after fseek(fp, 0, SEEK_END)
FileSize(f) == Plus(Plus(Big(Len(f.pre)), f.gap), Big(Len(f.post)))

\* the byte at offset i < FileSize(f)
FileByte(f, i) ==
    LET p == Big(Len(f.pre))
        q == Plus(p, f.gap)
    IN  IF Lt(i, p) THEN f.pre[Small(i) + 1]
        ELSE IF Lt(i, q) THEN f.fill
        ELSE f.post[Small(Minus(i, q)) + 1]

\* what fread(bf, 1, want, fp) returns with the file position at from
Fread(f, from, want) ==
    IF Le(FileSize(f), from) THEN 0
    ELSE LET left == Minus(FileSize(f), from)
         IN  IF Lt(left, Big(want)) THEN Small(left) ELSE want

\* ----------------------------------------------------------------- inputs
\* The big-endian layouts the decoder reads, written out: the encoder the
\* inputs are built with.

Bytes32(u) == <<u[1] \div 256, u[1] % 256, u[2] \div 256, u[2] % 256>>

Bytes16(v) == <<v \div 256, v % 256>>

EncodeHeader(h) ==
    Bytes32(h.magic_number) \o Bytes32(h.program_flags)
        \o Bytes32(h.number_of_program_bytes) \o Bytes16(h.version_information)

\* a Data record declaring count program bytes and carrying payload
EncodeData(seg, flags, addr, count, payload) ==
    <<DATA_RECORD_TAG, seg>> \o Bytes16(flags) \o Bytes32(addr) \o Bytes32(count)
        \o payload

EncodeEntry(addr, seg) == <<ENTRY_RECORD_TAG>> \o Bytes32(addr) \o <<seg>>

EncodeEnd(checksum) == <<END_RECORD_TAG>> \o Bytes32(checksum)

\* bounds of the inputs
MaxRecs == 2

MaxWalk == 4

MaxCkLen == 4

HeaderValues ==
    { [magic_number |-> m, program_flags |-> f,
       number_of_program_bytes |-> n, version_information |-> v] :
        m \in {<<0, 1>>, <<33024, 515>>}, f \in {<<0, 0>>, <<65535, 65535>>},
        n \in {<<0, 4>>, <<32768, 7>>}, v \in {256, 65279} }

ExampleHeader ==
    EncodeHeader([magic_number |-> <<0, 1>>, program_flags |-> <<0, 0>>,
                  number_of_program_bytes |-> <<0, 4>>, version_information |-> 256])

\* the records well-formed streams are made of; the second has payload bytes
\* that are themselves tag values
Items ==
    { EncodeData(0, 0, <<0, 0>>, <<0, 4>>, <<222, 173, 190, 239>>),
      EncodeData(18, 13398, <<30874, 48350>>, <<0, 2>>, <<3, 1>>),
      EncodeEntry(<<258, 772>>, 5) }

RECURSIVE Flatten(_)
Flatten(ss) == IF ss = <<>> THEN <<>> ELSE Head(ss) \o Flatten(Tail(ss))

Bodies(n) == UNION { [1..k -> Items] : k \in 0..n }

WellFormedFiles ==
    { Plain(ExampleHeader \o Flatten(b) \o EncodeEnd(<<0, 0>>)) : b \in Bodies(MaxRecs) }
    \cup { Plain(EncodeHeader(h) \o EncodeEnd(<<0, 0>>)) : h \in HeaderValues }
    \cup { Plain(ExampleHeader \o Flatten(b) \o EncodeEnd(<<65244, 4660>>)) : b \in Bodies(1) }

\* every proper prefix of a well-formed file
TruncatedFiles ==
    UNION { { Plain(SubSeq(w.pre, 1, n)) : n \in 0..(Len(w.pre) - 1) } :
            w \in WellFormedFiles }

\* a tag that is none of 1, 2, 3, first or after a record, last or not
UnknownTagFiles ==
    { Plain(ExampleHeader \o Flatten(b) \o <<t>> \o rest) :
        b \in Bodies(1), t \in {0, 7, 255},
        rest \in {<<>>, EncodeEnd(<<0, 0>>)} }

\* a Data record declaring more program bytes than the file holds
OversizedCounts == {<<0, 4>>, <<1, 0>>, <<32767, 65535>>, <<65535, 65524>>, <<65535, 65535>>}

OversizedFiles ==
    { Plain(ExampleHeader \o EncodeData(0, 0, <<0, 0>>, c, p) \o rest) :
        c \in OversizedCounts, p \in {<<>>, <<222>>},
        rest \in {<<>>, EncodeEnd(<<0, 0>>)} }

\* bytes after the End record
TrailingFiles ==
    { Plain(w.pre \o rest) :
        w \in { Plain(ExampleHeader \o Flatten(b) \o EncodeEnd(<<0, 0>>)) : b \in Bodies(1) },
        rest \in {<<7>>, EncodeEntry(<<0, 0>>, 0), EncodeEnd(<<0, 1>>)} }

\* sizes around MAX_FILE_SIZE_BYTES, 2^31 and 2^32
BigSizes ==
    { Big(MAX_FILE_SIZE_BYTES - 1), Big(MAX_FILE_SIZE_BYTES), Big(MAX_FILE_SIZE_BYTES + 1),
      <<512, 0>>, <<32768, 0>>, <<65535, 65535>>, <<65536, 20>> }

\* a header and an End record, then zeros up to the size
PaddedFiles ==
    { File(ExampleHeader \o EncodeEnd(<<0, 0>>), Minus(s, Big(19)), 0, <<>>) :
        s \in BigSizes }

\* a header, one Data record whose program bytes fill the file, an End record
FilledFiles ==
    { File(ExampleHeader \o EncodeData(0, 0, <<0, 0>>, Minus(s, Big(31)), <<>>),
           Minus(s, Big(31)), fill, EncodeEnd(<<0, 0>>)) :
        s \in BigSizes, fill \in {0, 255} }

Files ==
    WellFormedFiles \cup TruncatedFiles \cup UnknownTagFiles \cup OversizedFiles
        \cup TrailingFiles \cup PaddedFiles \cup FilledFiles

\* argv[1..argc-1], each argument as its characters
FileArg == <<"f">>

GoodArgs == { <<FileArg>>, <<FileArg, <<"-", "h">>>> }

\* only argv[2][0] and argv[2][1] are looked at
LongArgs == { <<FileArg, <<"-", "h", "x">>>> }

BadArgs ==
    { <<>>, <<FileArg, <<"-", "x">>>>, <<FileArg, <<"h">>>>, <<FileArg, <<"-">>>>,
      <<FileArg, <<>>>>, <<FileArg, <<"-", "h">>, <<"-", "h">>>> }

\* the inputs of the checksum stage taken alone
CkBytes == {0, 1, 255}

CkFiles ==
    { Plain(b) : b \in UNION { [1..k -> CkBytes] : k \in 0..MaxCkLen } }
    \cup { File(<<1, 2, 3>>, Minus(s, Big(11)), fill, <<9, 9, 9, 9, 8, 8, 8, 8>>) :
            s \in BigSizes, fill \in {0, 255} }

\* ------------------------------------------------------------------ state

VARIABLES
    argv,                \* the arguments after the program's name
    openable,            \* whether fopen(argv[1], "rb") succeeds
    fp,                  \* the file's content
    hide_program_bytes,  \* the global flag (src/main.c:25)
    pc,                  \* where main is
    size,                \* DisplayFileSize's int size
    header,              \* the header fields DisplayHeader printed
    rb,                  \* DisplayRecords' rb: the bytes fread put in bf
    nextRecord,          \* DisplayRecords' nextRecord, as an offset into bf
    record_tag,          \* DisplayRecord's record_tag in its latest call
    out,                 \* the records DisplayRecord printed, in order
    oob,                 \* a byte of bf at an index >= rb has been read
    res,                 \* what each stage returned: "none", "ok" (0), "fail" (1)
    crcPos,              \* DisplayCalculatedChecksum's loop bound
    checksum,            \* the calculated checksum printed
    status               \* main's return value

vars ==
    <<argv, openable, fp, hide_program_bytes, pc, size, header, rb, nextRecord,
      record_tag, out, oob, res, crcPos, checksum, status>>

\* a local not yet assigned, a value not yet printed; an assigned integer or
\* record v is held as <<v>>
None == <<>>

Stages == {"size", "header", "records", "checksum"}

\* the bytes an uninitialised or out-of-array element of bf may hold
Garbage == {0, 1, 2, 3}

Blank ==
    /\ hide_program_bytes = FALSE
    /\ size = None
    /\ header = None
    /\ rb = None
    /\ nextRecord = None
    /\ record_tag = None
    /\ out = <<>>
    /\ oob = FALSE
    /\ res = [s \in Stages |-> "none"]
    /\ crcPos = None
    /\ checksum = None
    /\ status = None

Init ==
    /\ \/ argv \in GoodArgs /\ fp \in Files /\ openable = TRUE
       \/ argv \in LongArgs /\ fp \in OversizedFiles /\ openable = TRUE
       \/ argv \in BadArgs /\ fp = Plain(<<>>) /\ openable \in BOOLEAN
       \/ argv \in GoodArgs \cup LongArgs /\ fp = Plain(<<>>) /\ openable = FALSE
    /\ pc = "main"
    /\ Blank

\* --------------------------------------------------------------- main
\* argv[i][j] of the C strings: the character, or the terminating NUL
Char(arg, j) == IF j < Len(arg) THEN arg[j + 1] ELSE "NUL"

\* src/main.c:209-231: TRUE for goto paramError
ParamError(av) ==
    LET argc == Len(av) + 1
    IN  \/ argc # 2 /\ argc # 3
        \/ /\ argc = 3
           /\ IF Char(av[2], 0) = "-" THEN Char(av[2], 1) # "h" ELSE TRUE

\* the flag after the argument checks
HideFlag(av) == Len(av) + 1 = 3 /\ Char(av[2], 0) = "-" /\ Char(av[2], 1) = "h"

\* main going on to the next stage whatever the stage returned
GotoNext(failed, next) == next

\* src/main.c:240-247: if (Stage(fp)) goto close;
Goto(failed, next) == IF failed THEN "close" ELSE next

\* main up to the first stage
Main ==
    /\ pc = "main"
    /\ IF ParamError(argv)
         THEN /\ pc' = "exit" /\ status' = <<1>>
              /\ UNCHANGED hide_program_bytes
         ELSE /\ hide_program_bytes' = HideFlag(argv)
              /\ IF openable
                   THEN pc' = "DisplayFileSize" /\ UNCHANGED status
                   ELSE pc' = "exit" /\ status' = <<1>>
    /\ UNCHANGED <<argv, openable, fp, size, header, rb, nextRecord, record_tag, out, oob,
                   res, crcPos, checksum>>

\* close: fclose(fp); return 0
Close ==
    /\ pc = "close"
    /\ pc' = "exit"
    /\ status' = <<0>>
    /\ UNCHANGED <<argv, openable, fp, hide_program_bytes, size, header, rb,
                   nextRecord, record_tag, out, oob, res, crcPos, checksum>>

\* ------------------------------------------------------- DisplayFileSize

TooLarge(n) == n >= MAX_FILE_SIZE_BYTES

DisplayFileSize ==
    /\ pc = "DisplayFileSize"
    /\ size' = <<ToInt(FileSize(fp))>>
    /\ IF TooLarge(size'[1])
         THEN res' = [res EXCEPT !["size"] = "fail"]
         ELSE res' = [res EXCEPT !["size"] = "ok"]
    /\ pc' = Goto(TooLarge(size'[1]), "DisplayHeader")
    /\ UNCHANGED <<argv, openable, fp, hide_program_bytes, header, rb,
                   nextRecord, record_tag, out, oob, crcPos, checksum, status>>

\* --------------------------------------------------------- DisplayHeader

\* a check that lets a short read through: if (rb == 0)
HeaderReadSome(n) == n # 0

\* src/main.c:60: rb != HEADER_SIZE_BYTES is the failure
HeaderRead(n) == n = HEADER_SIZE_BYTES

\* the fields assembled from bf[0..13]
DecodeHeader(bf) ==
    [ magic_number |-> ShiftOr32(bf[1], bf[2], bf[3], bf[4]),
      program_flags |-> ShiftOr32(bf[5], bf[6], bf[7], bf[8]),
      number_of_program_bytes |-> ShiftOr32(bf[9], bf[10], bf[11], bf[12]),
      version_information |-> ShiftOr16(bf[13], bf[14]) ]

\* bf after fread returned n: the elements past n are not written (0 here;
\* they are read only when HeaderRead lets a short read through)
HeaderBuf(f, n) ==
    [i \in 1..HEADER_SIZE_BYTES |-> IF i <= n THEN FileByte(f, Big(i - 1)) ELSE 0]

DisplayHeader ==
    /\ pc = "DisplayHeader"
    /\ LET n == Fread(fp, Big(0), HEADER_SIZE_BYTES)
       IN  IF HeaderRead(n)
             THEN /\ header' = <<DecodeHeader(HeaderBuf(fp, n))>>
                  /\ res' = [res EXCEPT !["header"] = "ok"]
                  /\ pc' = Goto(FALSE, "DisplayRecords")
             ELSE /\ res' = [res EXCEPT !["header"] = "fail"]
                  /\ pc' = Goto(TRUE, "DisplayRecords")
                  /\ UNCHANGED header
    /\ UNCHANGED <<argv, openable, fp, hide_program_bytes, size, rb, nextRecord, record_tag,
                   out, oob, crcPos, checksum, status>>

\* ---------------------------------------------------------- DisplayRecord
\* bf[i] with n bytes read into bf: the file's byte 14 + i for i < n, and for
\* i >= n (never written, or outside the array) whatever is there, g.
BufByte(f, n, i, g) ==
    IF Lt(i, Big(n)) THEN FileByte(f, Plus(Big(HEADER_SIZE_BYTES), i)) ELSE g

\* record[k] for the record at bf + c
RecordByte(f, n, c, k, g) == BufByte(f, n, Plus(c, Big(k)), g)

RecordTag(f, n, c, g) == RecordByte(f, n, c, 0, g)

\* record[8]<<24 | record[9]<<16 | record[10]<<8 | record[11]<<0
ProgramByteCount(f, n, c, g) ==
    ShiftOr32(RecordByte(f, n, c, 8, g), RecordByte(f, n, c, 9, g),
              RecordByte(f, n, c, 10, g), RecordByte(f, n, c, 11, g))

\* 12+number_of_program_bytes in unsigned int (src/main.c:112)
LoopBound(count) == Add32(Big(12), count)

\* how many times for(i=12; i<(12+number_of_program_bytes); i++) runs
LoopRuns(count) ==
    IF Lt(Big(12), LoopBound(count)) THEN Minus(LoopBound(count), Big(12)) ELSE Big(0)

\* Decode with the flag reaching the fields: a hidden Data record is given no
\* program bytes at all
DecodeHiding(f, n, c, g, hide) ==
    LET tag == RecordTag(f, n, c, g)
        B(k) == RecordByte(f, n, c, k, g)
    IN  IF tag = DATA_RECORD_TAG THEN
            << [ kind |-> "Data", at |-> c,
                 segment_type |-> B(1),
                 record_flags |-> ShiftOr16(B(2), B(3)),
                 record_start_address |-> ShiftOr32(B(4), B(5), B(6), B(7)),
                 number_of_program_bytes |-> IF hide THEN Big(0)
                                             ELSE ProgramByteCount(f, n, c, g),
                 hidden |-> hide,
                 printed |-> IF hide THEN Big(0)
                             ELSE LoopRuns(ProgramByteCount(f, n, c, g)),
                 unread |-> g ] >>
        ELSE IF tag = ENTRY_RECORD_TAG THEN
            << [ kind |-> "Entry", at |-> c,
                 entry_record |-> ShiftOr32(B(1), B(2), B(3), B(4)),
                 segment_type |-> B(5), unread |-> g ] >>
        ELSE IF tag = END_RECORD_TAG THEN
            << [ kind |-> "End", at |-> c,
                 checksum |-> ShiftOr32(B(1), B(2), B(3), B(4)), unread |-> g ] >>
        ELSE <<>>

\* what one call prints: <<>> for a tag that is none of the three, else the
\* record.  A Data record's program bytes are record[12 .. 12+printed-1]; they
\* are kept as that range, with what the bytes at or past n read as.
Decode(f, n, c, g, hide) ==
    LET tag == RecordTag(f, n, c, g)
        B(k) == RecordByte(f, n, c, k, g)
    IN  IF tag = DATA_RECORD_TAG THEN
            << [ kind |-> "Data", at |-> c,
                 segment_type |-> B(1),
                 record_flags |-> ShiftOr16(B(2), B(3)),
                 record_start_address |-> ShiftOr32(B(4), B(5), B(6), B(7)),
                 number_of_program_bytes |-> ProgramByteCount(f, n, c, g),
                 hidden |-> hide,
                 printed |-> IF hide THEN Big(0)
                             ELSE LoopRuns(ProgramByteCount(f, n, c, g)),
                 unread |-> g ] >>
        ELSE IF tag = ENTRY_RECORD_TAG THEN
            << [ kind |-> "Entry", at |-> c,
                 entry_record |-> ShiftOr32(B(1), B(2), B(3), B(4)),
                 segment_type |-> B(5), unread |-> g ] >>
        ELSE IF tag = END_RECORD_TAG THEN
            << [ kind |-> "End", at |-> c,
                 checksum |-> ShiftOr32(B(1), B(2), B(3), B(4)), unread |-> g ] >>
        ELSE <<>>

\* one past the last index of record[] the call reads
ReadEnd(f, n, c, g, hide) ==
    LET tag == RecordTag(f, n, c, g)
        count == ProgramByteCount(f, n, c, g)
    IN  IF tag = DATA_RECORD_TAG THEN
            IF ~hide /\ Lt(Big(0), LoopRuns(count)) THEN LoopBound(count) ELSE Big(12)
        ELSE IF tag = ENTRY_RECORD_TAG THEN Big(6)
        ELSE IF tag = END_RECORD_TAG THEN Big(5)
        ELSE Big(1)

\* Return with the End record treated like the others: return record+5
ReturnAfterEnd(f, n, c, g) ==
    LET tag == RecordTag(f, n, c, g)
    IN  IF tag = DATA_RECORD_TAG THEN Plus(Plus(c, Big(12)), ProgramByteCount(f, n, c, g))
        ELSE IF tag = ENTRY_RECORD_TAG THEN Plus(c, Big(6))
        ELSE IF tag = END_RECORD_TAG THEN Plus(c, Big(5))
        ELSE None

\* Return with the offset added in 32 bits
ReturnWrapped(f, n, c, g) ==
    LET tag == RecordTag(f, n, c, g)
    IN  IF tag = DATA_RECORD_TAG THEN Add32(Add32(c, Big(12)), ProgramByteCount(f, n, c, g))
        ELSE IF tag = ENTRY_RECORD_TAG THEN Add32(c, Big(6))
        ELSE None

\* the pointer returned, as an offset into bf; None for 0.  The sum is a
\* 64-bit pointer's: number_of_program_bytes is added in full.
Return(f, n, c, g) ==
    LET tag == RecordTag(f, n, c, g)
    IN  IF tag = DATA_RECORD_TAG THEN Plus(Plus(c, Big(12)), ProgramByteCount(f, n, c, g))
        ELSE IF tag = ENTRY_RECORD_TAG THEN Plus(c, Big(6))
        ELSE None

\* what the bytes at or past n may read as in one call: nothing is asked when
\* the call stays below n
Unread(f, n, c, hide) ==
    IF Le(Plus(c, ReadEnd(f, n, c, 0, hide)), Big(n)) THEN {0} ELSE Garbage

\* the walk entered whatever fread returned
RecordsReadAlways(n) == TRUE

\* src/main.c:162: if (rb)
RecordsRead(n) == n # 0

\* DisplayRecords up to its loop: fseek, fread, if (rb)
DisplayRecords ==
    /\ pc = "DisplayRecords"
    /\ rb' = <<Fread(fp, Big(HEADER_SIZE_BYTES), BufSize)>>
    /\ IF RecordsRead(rb'[1])
         THEN /\ nextRecord' = Big(0)
              /\ pc' = "DisplayRecord"
              /\ UNCHANGED res
         ELSE /\ res' = [res EXCEPT !["records"] = "fail"]
              /\ pc' = Goto(TRUE, "DisplayCalculatedChecksum")
              /\ UNCHANGED nextRecord
    /\ UNCHANGED <<argv, openable, fp, hide_program_bytes, size, header,
                   record_tag, out, oob, crcPos, checksum, status>>

\* one turn of while(nextRecord): a call of DisplayRecord, and DisplayRecords'
\* return 0 when it returns 0.  A read outside the array bf may also end the
\* process.
DisplayRecord ==
    /\ pc = "DisplayRecord"
    /\ Len(out) < MaxWalk
    /\ \E g \in Unread(fp, rb[1], nextRecord, hide_program_bytes), fault \in BOOLEAN :
        LET c == nextRecord
            end == Plus(c, ReadEnd(fp, rb[1], c, g, hide_program_bytes))
            next == Return(fp, rb[1], c, g)
        IN  /\ fault => Lt(Big(BufSize), end)
            /\ oob' = (oob \/ Lt(Big(rb[1]), end))
            /\ record_tag' = <<RecordTag(fp, rb[1], c, g)>>
            /\ IF fault
                 THEN /\ pc' = "crashed"
                      /\ UNCHANGED <<nextRecord, out, res>>
                 ELSE /\ out' = out \o Decode(fp, rb[1], c, g, hide_program_bytes)
                      /\ nextRecord' = next
                      /\ IF next = None
                           THEN /\ res' = [res EXCEPT !["records"] = "ok"]
                                /\ pc' = Goto(FALSE, "DisplayCalculatedChecksum")
                           ELSE UNCHANGED <<res, pc>>
    /\ UNCHANGED <<argv, openable, fp, hide_program_bytes, size, header, rb,
                   crcPos, checksum, status>>

\* ---------------------------------------------- DisplayCalculatedChecksum

\* what checksum += fileByte adds over s[i..k]: the sum modulo 2^32, taken
\* by halves (the order of the additions does not change it)
RECURSIVE SumSeq(_, _, _)
SumSeq(s, i, k) ==
    IF i > k THEN Big(0)
    ELSE IF i = k THEN Big(s[i])
    ELSE Add32(SumSeq(s, i, (i + k) \div 2), SumSeq(s, ((i + k) \div 2) + 1, k))

\* the accumulator after the file's first n bytes, n <= FileSize(f): the run
\* of gap bytes adds fill times its length
ByteSum(f, n) ==
    LET p == Big(Len(f.pre))
        q == Plus(p, f.gap)
        inPre == IF Lt(n, p) THEN Small(n) ELSE Len(f.pre)
        inGap == IF Le(n, p) THEN Big(0) ELSE IF Lt(n, q) THEN Minus(n, p) ELSE f.gap
        inPost == IF Le(n, q) THEN 0 ELSE Small(Minus(n, q))
    IN  Add32(Add32(SumSeq(f.pre, 1, inPre), ToUnsigned(Times(inGap, f.fill))),
              SumSeq(f.post, 1, inPost))

\* the loop bound with the last four bytes summed too
CrcPosWhole(f) == ToUnsigned(FileSize(f))

\* (unsigned int)ftell(fp) - 4
CrcPos(f) == Sub32(ToUnsigned(FileSize(f)), Big(4))

\* the loop's fread returns 0 at the end of the file, before i reaches crcPos
ReadFails(f) == Lt(FileSize(f), CrcPos(f))

Calculated(f) == Negate32(ByteSum(f, CrcPos(f)))

DisplayCalculatedChecksum ==
    /\ pc = "DisplayCalculatedChecksum"
    /\ crcPos' = CrcPos(fp)
    /\ IF ReadFails(fp)
         THEN /\ res' = [res EXCEPT !["checksum"] = "fail"]
              /\ UNCHANGED checksum
         ELSE /\ res' = [res EXCEPT !["checksum"] = "ok"]
              /\ checksum' = Calculated(fp)
    /\ pc' = "close"
    /\ UNCHANGED <<argv, openable, fp, hide_program_bytes, size, header, rb,
                   nextRecord, record_tag, out, oob, status>>

\* --------------------------------------------------------- specifications

Next ==
    \/ Main
    \/ DisplayFileSize
    \/ DisplayHeader
    \/ DisplayRecords
    \/ DisplayRecord
    \/ DisplayCalculatedChecksum
    \/ Close

Spec == Init /\ [][Next]_vars

\* The runs on the well-formed files of every size, and on the files of those
\* sizes that are not well-formed.  main is a sequential program: it takes its
\* next step whenever it has one.
InitFair ==
    /\ argv \in GoodArgs
    /\ openable = TRUE
    /\ fp \in WellFormedFiles \cup TrailingFiles \cup FilledFiles \cup PaddedFiles
    /\ pc = "main"
    /\ Blank

FairSpec == InitFair /\ [][Next]_vars /\ WF_vars(Next)

\* the checksum stage taken alone, on any file
InitChecksum ==
    /\ argv = <<FileArg>>
    /\ openable = TRUE
    /\ fp \in CkFiles
    /\ pc = "DisplayCalculatedChecksum"
    /\ Blank

NextChecksum == DisplayCalculatedChecksum \/ Close

SpecChecksum == InitChecksum /\ [][NextChecksum]_vars

\* ------------------------------------------------------------ properties

Last(s) == s[Len(s)]

\* one past the last index of bf read for the printed record r
ReadOf(r) ==
    IF r.kind = "Data"
      THEN IF r.hidden \/ r.printed = Big(0) THEN Plus(r.at, Big(12))
           ELSE Plus(Plus(r.at, Big(12)), r.printed)
      ELSE IF r.kind = "Entry" THEN Plus(r.at, Big(6)) ELSE Plus(r.at, Big(5))

\* r is a Data record whose 12-byte fixed part was read from the file and whose
\* number_of_program_bytes is more than the bytes read after that part
Overrun(r) ==
    /\ r.kind = "Data"
    /\ Le(Plus(r.at, Big(12)), Big(rb[1]))
    /\ Lt(Minus(Big(rb[1]), Plus(r.at, Big(12))), r.number_of_program_bytes)

\* C1: a Data record declaring more program bytes than were read after its
\* fixed part makes the record stage fail, and no byte of bf at an index at or
\* past the number of bytes read is ever read for it.
C1_OverrunFailsBeforeRead ==
    \A i \in 1..Len(out) :
        Overrun(out[i]) =>
            /\ ~oob
            /\ pc # "DisplayRecord" => res["records"] = "fail"

\* the tag DisplayRecord last looked at was read from the file and is none of
\* 0x01, 0x02, 0x03
UnknownTagRead ==
    /\ record_tag # None
    /\ record_tag[1] \notin {DATA_RECORD_TAG, ENTRY_RECORD_TAG, END_RECORD_TAG}
    /\ ~oob

\* C2: when the tag at the cursor is none of 0x01, 0x02, 0x03 the record stage
\* ends in failure, not with the result it has after an End record.
C2_UnknownTagFails ==
    (UnknownTagRead /\ pc # "DisplayRecord") => res["records"] = "fail"

\* the file's four bytes at off, most significant first
BigEndian32(f, off) ==
    << FileByte(f, off) * 256 + FileByte(f, Plus(off, Big(1))),
       FileByte(f, Plus(off, Big(2))) * 256 + FileByte(f, Plus(off, Big(3))) >>

\* the file's bytes from off on are Data and Entry records, each whole, then
\* a whole End record
RECURSIVE WellFormedFrom(_, _)
WellFormedFrom(f, off) ==
    IF ~Lt(off, FileSize(f)) THEN FALSE
    ELSE IF FileByte(f, off) = DATA_RECORD_TAG THEN
        /\ Le(Plus(off, Big(12)), FileSize(f))
        /\ LET next == Plus(Plus(off, Big(12)), BigEndian32(f, Plus(off, Big(8))))
           IN  Le(next, FileSize(f)) /\ WellFormedFrom(f, next)
    ELSE IF FileByte(f, off) = ENTRY_RECORD_TAG THEN
        Le(Plus(off, Big(6)), FileSize(f)) /\ WellFormedFrom(f, Plus(off, Big(6)))
    ELSE IF FileByte(f, off) = END_RECORD_TAG THEN
        Le(Plus(off, Big(5)), FileSize(f))
    ELSE FALSE

WellFormed(f) == Le(Big(18), FileSize(f)) /\ WellFormedFrom(f, Big(HEADER_SIZE_BYTES))

\* main got its arguments and opened the file
Opened == ~ParamError(argv) /\ openable

WellFormedAccepted ==
    Opened /\ WellFormed(fp) /\ Lt(FileSize(fp), Big(MAX_FILE_SIZE_BYTES))

\* C3, as stated: for every well-formed file of 18 bytes or more the record
\* walk ends, its last record is the End record, and no byte of bf at or past
\* the bytes read is read.
C3_EveryWellFormedFile ==
    (Opened /\ WellFormed(fp)) =>
        /\ ~oob
        /\ pc # "crashed"
        /\ pc = "exit" =>
            res["records"] = "ok" /\ out # <<>> /\ Last(out).kind = "End"

\* C3, amended: for every well-formed file of fewer than MAX_FILE_SIZE_BYTES
\* bytes the run reaches its end with the record walk finished, the End record
\* the last record printed, and no byte of bf at or past the bytes read is
\* ever read.
C3_WellFormedWalkEnds ==
    /\ [](WellFormedAccepted => ~oob /\ pc # "crashed")
    /\ (WellFormedAccepted /\ pc = "main") ~>
           (pc = "exit" /\ res["records"] = "ok" /\ out # <<>> /\ Last(out).kind = "End")

\* a well-formed file of three records has been walked to its End record
C3_Witness ==
    /\ WellFormedAccepted
    /\ pc = "exit"
    /\ Len(out) = 3
    /\ out[1].kind = "Data"
    /\ out[3].kind = "End"
    /\ res["records"] = "ok"
    /\ ~oob

\* a byte of the printed record r was read at an index at or past the bytes
\* read from the file
Fabricated(r) == Lt(Big(rb[1]), ReadOf(r))

\* C4: a well-formed file cut short at any length fails with a truncation
\* error (the header stage or the record stage fails); no record is printed
\* from bytes that are not the file's, and the run never ends in success.
C4_TruncationFails ==
    (Opened /\ fp \in TruncatedFiles) =>
        /\ \A i \in 1..Len(out) : ~Fabricated(out[i])
        /\ pc # "crashed"
        /\ pc = "exit" => (res["header"] = "fail" \/ res["records"] = "fail")

\* the stage's answer for the whole file but its last four bytes
ExpectedChecksum(f) == Negate32(ByteSum(f, Minus(FileSize(f), Big(4))))

\* C5: for a file of 4 bytes or more the checksum stage succeeds and its value
\* is 2^32 minus the sum, modulo 2^32, of all the bytes but the last four.
C5_ChecksumOfAllButLastFour ==
    (pc # "DisplayCalculatedChecksum" /\ Le(Big(4), FileSize(fp))) =>
        /\ res["checksum"] = "ok"
        /\ checksum = ExpectedChecksum(fp)

\* C6: for a file of fewer than 4 bytes the checksum stage fails, prints no
\* value, and its loop bound is not length - 4 wrapped around in 32 bits.
C6_TooShortFails ==
    (pc # "DisplayCalculatedChecksum" /\ Lt(FileSize(fp), Big(4))) =>
        /\ res["checksum"] = "fail"
        /\ checksum = None
        /\ ~Lt(FileSize(fp), crcPos)

\* fewer than HEADER_SIZE_BYTES bytes are available
ShortFile == Lt(FileSize(fp), Big(HEADER_SIZE_BYTES))

\* C7: with fewer than 14 bytes available the header stage fails, no header
\* field is printed, and the record stage never runs.
C7_ShortHeaderFails ==
    (Opened /\ ShortFile) =>
        /\ header = None
        /\ rb = None /\ out = <<>> /\ res["records"] = "none"
        /\ pc \notin {"DisplayRecords", "DisplayRecord", "crashed"}
        /\ pc \in {"close", "exit"} => res["header"] = "fail"

\* a 13-byte file has gone through main
C7_Witness ==
    /\ Opened
    /\ FileSize(fp) = Big(HEADER_SIZE_BYTES - 1)
    /\ pc = "exit"
    /\ res["header"] = "fail"
    /\ header = None

\* C8: the header printed for the 14 bytes that encode a header value, most
\* significant byte first, is that header value.
C8_HeaderRoundTrip ==
    header # None =>
        LET bf == HeaderBuf(fp, HEADER_SIZE_BYTES)
        IN  \A h \in HeaderValues : bf = EncodeHeader(h) => header[1] = h

\* a header whose three 32-bit fields have a first byte of 0x80 or more has
\* been decoded
C8_Witness ==
    /\ header # None
    /\ HeaderBuf(fp, HEADER_SIZE_BYTES) = EncodeHeader(header[1])
    /\ header[1].magic_number = <<33024, 515>>
    /\ header[1].program_flags = <<65535, 65535>>
    /\ header[1].number_of_program_bytes = <<32768, 7>>
    /\ header[1].version_information = 65279

\* the file offset of record[k] for the printed record r
FileAt(r, k) == Plus(Plus(Big(HEADER_SIZE_BYTES), r.at), Big(k))

\* C9: a Data record whose fixed part is in the file is printed with the
\* fields at c+1, c+2..c+3, c+4..c+7 and c+8..c+11, and the number of program
\* bytes printed for it is its number_of_program_bytes, whatever that is.
C9_DataRecordDecoded ==
    \A i \in 1..Len(out) :
        LET r == out[i]
        IN  (r.kind = "Data" /\ Le(Plus(r.at, Big(12)), Big(rb[1]))) =>
                /\ r.segment_type = FileByte(fp, FileAt(r, 1))
                /\ r.record_flags = FileByte(fp, FileAt(r, 2)) * 256 + FileByte(fp, FileAt(r, 3))
                /\ r.record_start_address = BigEndian32(fp, FileAt(r, 4))
                /\ r.number_of_program_bytes = BigEndian32(fp, FileAt(r, 8))
                /\ ~r.hidden => r.printed = r.number_of_program_bytes

\* C10: a file of MAX_FILE_SIZE_BYTES bytes or more fails the size stage and
\* no later stage runs for it; a file of MAX_FILE_SIZE_BYTES - 1 bytes passes.
C10_SizeLimit ==
    (Opened /\ res["size"] # "none") =>
        IF Le(Big(MAX_FILE_SIZE_BYTES), FileSize(fp))
          THEN /\ res = [s \in Stages |-> IF s = "size" THEN "fail" ELSE "none"]
               /\ header = None /\ rb = None /\ out = <<>>
               /\ crcPos = None /\ checksum = None
          ELSE FileSize(fp) = Big(MAX_FILE_SIZE_BYTES - 1) => res["size"] = "ok"

\* the file is a header and nothing else
HeaderOnly == FileSize(fp) = Big(HEADER_SIZE_BYTES)

\* C11: for a file of exactly 14 bytes the header stage succeeds and prints
\* the header, and the record stage reads no tag and prints no record.
C11_HeaderOnlyFile ==
    (Opened /\ HeaderOnly) =>
        /\ res["header"] # "fail"
        /\ res["header"] = "ok" =>
              header = <<DecodeHeader(HeaderBuf(fp, HEADER_SIZE_BYTES))>>
        /\ pc \in {"DisplayRecords", "DisplayRecord", "close", "exit"} =>
              res["header"] = "ok"
        /\ record_tag = None /\ out = <<>> /\ ~oob
        /\ pc \notin {"DisplayRecord", "crashed"}

\* a 14-byte file has gone through its header and record stages
C11_Witness ==
    /\ Opened /\ HeaderOnly
    /\ pc = "exit"
    /\ res["header"] = "ok" /\ header # None
    /\ rb = <<0>>
    /\ out = <<>>

\* what the record r adds to the cursor
Advance(r) ==
    IF r.kind = "Data" THEN Plus(Big(12), r.number_of_program_bytes) ELSE Big(6)

\* C12: each turn of the walk that goes on to another record leaves the cursor
\* strictly after where it was: 12 + number_of_program_bytes further for a
\* Data record, 6 further for an Entry record.
C12_CursorAdvances ==
    [][ (pc = "DisplayRecord" /\ pc' = "DisplayRecord") =>
            /\ out' # <<>>
            /\ Last(out').kind \in {"Data", "Entry"}
            /\ Last(out').at = nextRecord
            /\ nextRecord' = Plus(nextRecord, Advance(Last(out')))
            /\ Lt(nextRecord, nextRecord') ]_vars

\* the walk has gone past a Data record of 2^32 - 1 program bytes
C12_Witness ==
    /\ pc = "DisplayRecord"
    /\ \E i \in 1..Len(out) :
          /\ out[i].kind = "Data"
          /\ out[i].number_of_program_bytes = <<65535, 65535>>
          /\ nextRecord = Plus(out[i].at, <<65536, 11>>)

\* an End record has been printed
EndPrinted == \E i \in 1..Len(out) : out[i].kind = "End"

\* C13: an End record is the last record printed and the walk does not go on
\* after it; a record stage that returned success printed an End record last.
C13_EndIsLast ==
    /\ \A i \in 1..(Len(out) - 1) : out[i].kind # "End"
    /\ EndPrinted => pc \notin {"DisplayRecord", "crashed"}
    /\ res["records"] = "ok" => (out # <<>> /\ Last(out).kind = "End")

\* C14: a stage has run only if every stage before it, in the order size,
\* header, records, checksum, returned success; the checksum is calculated
\* only after the three stages before it succeeded.
C14_StagesInOrder ==
    /\ (res["header"] # "none" \/ header # None \/ pc = "DisplayHeader") =>
          res["size"] = "ok"
    /\ (res["records"] # "none" \/ rb # None \/ record_tag # None \/ out # <<>>
            \/ pc \in {"DisplayRecords", "DisplayRecord", "crashed"}) =>
          (res["size"] = "ok" /\ res["header"] = "ok")
    /\ (res["checksum"] # "none" \/ crcPos # None \/ checksum # None
            \/ pc = "DisplayCalculatedChecksum") =>
          (res["size"] = "ok" /\ res["header"] = "ok" /\ res["records"] = "ok")

\* the four stages have succeeded in order on a file of two records and the
\* checksum has been calculated
C14_Witness ==
    /\ pc = "exit"
    /\ res = [s \in Stages |-> "ok"]
    /\ checksum # None
    /\ Len(out) = 2
    /\ ~oob

\* the kind, the cursor and the fields printed for the record r, its program
\* bytes left out
Fields(r) ==
    IF r.kind = "Data"
      THEN <<r.kind, r.at, r.segment_type, r.record_flags, r.record_start_address,
             r.number_of_program_bytes>>
      ELSE IF r.kind = "Entry" THEN <<r.kind, r.at, r.entry_record, r.segment_type>>
      ELSE <<r.kind, r.at, r.checksum>>

\* what DisplayRecord prints at the record r's cursor, from the same memory,
\* with hide_program_bytes the other way
Flipped(r) == Decode(fp, rb[1], r.at, r.unread, ~hide_program_bytes)

LastFours == {<<0, 0, 0, 0>>, <<254, 220, 18, 52>>, <<3, 1, 2, 255>>}

\* the file f of four bytes or more with its last four bytes replaced by v
WithLast4(f, v) ==
    IF Len(f.post) >= 4
      THEN [f EXCEPT !.post = SubSeq(f.post, 1, Len(f.post) - 4) \o v]
      ELSE IF f.gap = Big(0)
        THEN [f EXCEPT !.pre = SubSeq(f.pre, 1, Len(f.pre) - 4) \o v]
        ELSE File(f.pre, Minus(f.gap, Big(4)), f.fill, v)

\* the last record printed is an End record read from the file's last five
\* bytes, and nothing but the file's bytes was read
EndRecordLast ==
    /\ out # <<>> /\ ~oob
    /\ Last(out).kind = "End"
    /\ Plus(FileAt(Last(out), 0), Big(5)) = FileSize(fp)

\* the stages' results and values for the file g are those of this run
SameStages(g) ==
    /\ FileSize(g) = FileSize(fp)
    /\ res["size"] # "none" => (TooLarge(ToInt(FileSize(g))) <=> res["size"] = "fail")
    /\ res["header"] # "none" =>
          (HeaderRead(Fread(g, Big(0), HEADER_SIZE_BYTES)) <=> res["header"] = "ok")
    /\ header # None => header = <<DecodeHeader(HeaderBuf(g, HEADER_SIZE_BYTES))>>
    /\ rb # None => rb = <<Fread(g, Big(HEADER_SIZE_BYTES), BufSize)>>
    /\ res["checksum"] # "none" => (ReadFails(g) <=> res["checksum"] = "fail")
    /\ res["checksum"] = "ok" => checksum = Calculated(g)

\* the walk over the file g prints the records of this run at the same
\* cursors, the End record's checksum field apart
SameWalk(g) ==
    \A i \in 1..Len(out) :
        LET t == Decode(g, rb[1], out[i].at, out[i].unread, hide_program_bytes)
        IN  /\ t # <<>>
            /\ t[1].kind = out[i].kind
            /\ t[1].kind # "End" => t[1] = out[i]
            /\ Return(g, rb[1], out[i].at, out[i].unread)
                  = Return(fp, rb[1], out[i].at, out[i].unread)

\* C16: a file of 19 bytes or more and the file that differs from it in its
\* last four bytes only have the same result in every stage and the same
\* calculated checksum; when those bytes are the End record's checksum field
\* the records printed are the same but for that field.
C16_EmbeddedChecksumIgnored ==
    (Opened /\ Le(Big(19), FileSize(fp))) =>
        \A v \in LastFours :
            /\ SameStages(WithLast4(fp, v))
            /\ EndRecordLast => SameWalk(WithLast4(fp, v))

\* a well-formed file whose End record holds 0xfedc1234 has gone through
\* the four stages
C16_Witness ==
    /\ pc = "exit"
    /\ EndRecordLast
    /\ Len(out) = 2
    /\ Last(out).checksum = <<65244, 4660>>
    /\ res = [s \in Stages |-> "ok"]
    /\ checksum # None
    /\ WithLast4(fp, <<0, 0, 0, 0>>) # fp

\* C17: a run on a file that was opened ends with status 0 whatever the
\* stages returned, and a run ends with another status only for a bad
\* argument list or a file that cannot be opened.
C17_StatusZeroIfOpened ==
    /\ pc = "exit" => (status = <<0>> <=> Opened)
    /\ pc = "exit" => (status = <<1>> <=> ~Opened)
    /\ Opened => pc # "crashed"

=============================================================================
